---- MODULE Spec2Model ----
(***************************************************************************)
(* Model of SQLite3Handler and TimedRotatingSQLite3Handler                 *)
(* (src/SQLite3Handler/SQLite3Handler.py).                                 *)
(*                                                                         *)
(* Strings that the code takes apart or formats (database names, strftime  *)
(* formats) are sequences of one-character strings.                        *)
(***************************************************************************)
EXTENDS Integers, Sequences, FiniteSets, TLC

(***************************************************************************)
(* Bounds                                                                  *)
(***************************************************************************)
MaxEmits == 2
MaxResolved == 2

(***************************************************************************)
(* Character strings                                                       *)
(***************************************************************************)
EMPTY == << >>

Digits == <<"0", "1", "2", "3", "4", "5", "6", "7", "8", "9">>

Pad2(n) == <<Digits[((n \div 10) % 10) + 1], Digits[(n % 10) + 1]>>

Pad4(n) == Pad2(n \div 100) \o Pad2(n % 100)

EndsWith(s, suf) ==
    /\ Len(s) >= Len(suf)
    /\ SubSeq(s, Len(s) - Len(suf) + 1, Len(s)) = suf

DropLast(s, k) == SubSeq(s, 1, Len(s) - k)

(***************************************************************************)
(* TimedRotatingSQLite3Handler.__init__: extension and time format         *)
(***************************************************************************)
EXT_DB == <<".", "d", "b">>
EXT_SQLITE == <<".", "s", "q", "l", "i", "t", "e">>
EXT_SQLITE3 == <<".", "s", "q", "l", "i", "t", "e", "3">>
DEFAULT_EXT == EXT_SQLITE3

\* dbext_re = '(\.db$|\.sqlite$|\.sqlite3$)': the three endings, tried in order
dbext_re == <<EXT_DB, EXT_SQLITE, EXT_SQLITE3>>

Matches(database) == {i \in 1..Len(dbext_re) : EndsWith(database, dbext_re[i])}

\* re.search(dbext_re, database): the matched text, or EMPTY for no match
ReSearch(database) ==
    IF Matches(database) = {} THEN EMPTY
    ELSE dbext_re[CHOOSE i \in Matches(database) : \A j \in Matches(database) : i <= j]

\* re.sub(dbext_re, '', database)
ReSub(database) == DropLast(database, Len(ReSearch(database)))

DbExt(database) ==
    IF ReSearch(database) # EMPTY THEN ReSearch(database) ELSE DEFAULT_EXT

TimeFormatSkipsDay(interval) ==
    CASE interval = "year" -> <<"_", "%", "Y">>
      [] interval = "month" -> <<"_", "%", "Y", "-", "%", "m">>
      [] interval = "day" -> <<"_", "%", "Y", "-", "%", "m">>
      [] interval = "hour" -> <<"_", "%", "Y", "-", "%", "m", "-", "%", "d", "_", "%", "H">>
      [] interval = "minute" ->
            <<"_", "%", "Y", "-", "%", "m", "-", "%", "d", "_", "%", "H", ":", "%", "M">>
      [] OTHER -> EMPTY

TimeFormat(interval) ==
    CASE interval = "year" -> <<"_", "%", "Y">>
      [] interval = "month" -> <<"_", "%", "Y", "-", "%", "m">>
      [] interval = "day" -> <<"_", "%", "Y", "-", "%", "m", "-", "%", "d">>
      [] interval = "hour" -> <<"_", "%", "Y", "-", "%", "m", "-", "%", "d", "_", "%", "H">>
      [] interval = "minute" ->
            <<"_", "%", "Y", "-", "%", "m", "-", "%", "d", "_", "%", "H", ":", "%", "M">>
      [] OTHER -> EMPTY

DbFormat(database, interval) ==
    ReSub(database) \o TimeFormat(interval) \o DbExt(database)

(***************************************************************************)
(* TimedRotatingSQLite3Handler.emit: date and resolved database            *)
(***************************************************************************)
\* dt.datetime(*time.localtime(record.created)[:6]): the six calendar fields
Date(lt) == [year |-> lt.year, month |-> lt.month, day |-> lt.day,
             hour |-> lt.hour, minute |-> lt.minute, second |-> lt.second]

Directive(c, date) ==
    CASE c = "Y" -> Pad4(date.year)
      [] c = "m" -> Pad2(date.month)
      [] c = "d" -> Pad2(date.day)
      [] c = "H" -> Pad2(date.hour)
      [] c = "M" -> Pad2(date.minute)
      [] c = "S" -> Pad2(date.second)
      [] c = "%" -> <<"%">>
      [] OTHER -> <<"%", c>>

RECURSIVE StrFTime(_, _)
\* date.strftime(fmt): every %-directive of the whole format is expanded
StrFTime(fmt, date) ==
    IF fmt = EMPTY THEN EMPTY
    ELSE IF Head(fmt) = "%" /\ Len(fmt) >= 2
         THEN Directive(fmt[2], date) \o StrFTime(SubSeq(fmt, 3, Len(fmt)), date)
         ELSE <<Head(fmt)>> \o StrFTime(Tail(fmt), date)

(***************************************************************************)
(* Inputs                                                                  *)
(***************************************************************************)
APP_DB == <<"a", "p", "p", ".", "d", "b">>

\* base names given to the rotating handler when only the naming is examined
Templates ==
    { APP_DB,
      <<"a", "p", "p">>,
      <<"l", "/", "a", ".", "s", "q", "l", "i", "t", "e">>,
      <<"a", ".", "s", "q", "l", "i", "t", "e", "3">>,
      <<"a", ".", "D", "B">>,
      <<"a", ".", "d", "b", ".", "b", "a", "k">>,
      <<"a", "%", "H", ".", "d", "b">>,
      <<"a", "%", "%", ".", "d", "b">> }

Intervals == {"year", "month", "day", "hour", "minute", "none", "week"}

\* outputs of time.localtime(record.created)
LocalTime(y, mo, d, h, mi) ==
    [year |-> y, month |-> mo, day |-> d, hour |-> h, minute |-> mi, second |-> 7]

LocalTimes ==
    { LocalTime(2023, 12, 31, 23, 59),
      LocalTime(2024, 1, 1, 0, 0),
      LocalTime(2024, 1, 1, 0, 5),
      LocalTime(2024, 1, 1, 9, 5),
      LocalTime(2024, 1, 2, 9, 5),
      LocalTime(2024, 2, 2, 9, 5) }

\* the local times of the events emitted through the handlers
EmitTimes == { LocalTime(2024, 1, 1, 9, 5), LocalTime(2024, 1, 2, 9, 5) }

\* record.exc_info: None, the triple of an exception being handled, or the
\* triple (None, None, None) that logging stores for exc_info=True outside
\* an except block
NoExcInfo == [isNone |-> TRUE, type |-> "None", frames |-> << >>]
AllNoneTriple == [isNone |-> FALSE, type |-> "None", frames |-> << >>]
ValueErrorTriple ==
    [isNone |-> FALSE, type |-> "ValueError",
     frames |-> <<"Traceback (most recent call last):", "  File f, line 1", "ValueError: boom">>]

ExcInfos == {NoExcInfo, AllNoneTriple, ValueErrorTriple}

Messages == {"hello"}

LogRecord(lt, msg, args, exc_info) ==
    [lt |-> lt, msecs |-> 250, name |-> "root", levelname |-> "INFO",
     pathname |-> "/srv/app.py", lineno |-> 12, module |-> "app",
     funcName |-> "main", process |-> 4242, processName |-> "MainProcess",
     thread |-> 77, threadName |-> "MainThread", msg |-> msg, args |-> args,
     exc_info |-> exc_info]

\* the events given to emit: well-formed ones, with and without a captured
\* failure, and one whose arguments do not fit its message
LogRecords ==
    {LogRecord(lt, m, "none", e) : lt \in EmitTimes, m \in Messages, e \in ExcInfos}
        \cup {LogRecord(lt, "%d", "bad", NoExcInfo) : lt \in {LocalTime(2024, 1, 1, 9, 5)}}

WellFormed(x) == x.args = "none"

(***************************************************************************)
(* SQLite3Handler.TABLE_COLUMNS                                            *)
(***************************************************************************)
TABLE_NAME == "logs"

LogCol(name, type) == [name |-> name, type |-> type]

TABLE_COLUMNS ==
    << LogCol("Time", "TEXT"), LogCol("LoggerName", "TEXT"),
       LogCol("Level", "TEXT"), LogCol("FileName", "TEXT"),
       LogCol("LineNo", "INTEGER"), LogCol("ModuleName", "TEXT"),
       LogCol("FuncName", "TEXT"), LogCol("ProcessID", "INTEGER"),
       LogCol("ProcessName", "TEXT"), LogCol("ThreadID", "INTEGER"),
       LogCol("ThreadName", "TEXT"), LogCol("LogMessage", "TEXT"),
       LogCol("ExceptionType", "TEXT"), LogCol("TraceBack", "TEXT") >>

NULL == [null |-> TRUE]
Value(v) == [null |-> FALSE, v |-> v]

\* truth value of record.exc_info: None is false, every 3-tuple is true
Truthy(exc_info) == ~exc_info.isNone

\* traceback.format_exception(*exc_info): the formatted frames; for the
\* triple (None, None, None) the single line "NoneType: None"
FormatException(exc_info) ==
    IF exc_info.type = "None" THEN <<"NoneType: None">> ELSE exc_info.frames

\* ''.join(lines), kept as the sequence of the joined pieces
Join(lines) == lines

\* an extractor that raises instead of returning a value
Raise(type) == [raised |-> type]

Raised(v) == "raised" \in DOMAIN v

\* x.getMessage(): str(msg) % args when there are args, else str(msg)
GetMessage(x) ==
    IF x.args = "none" THEN Value(x.msg)
    ELSE IF x.args = "bad" THEN Raise("TypeError")
    ELSE Value(x.msg)

GetValueIgnoresExcInfo(name, x) ==
    CASE name = "Time" -> Value([date |-> Date(x.lt), microsecond |-> x.msecs * 1000])
      [] name = "LoggerName" -> Value(x.name)
      [] name = "Level" -> Value(x.levelname)
      [] name = "FileName" -> Value(x.pathname)
      [] name = "LineNo" -> Value(x.lineno)
      [] name = "ModuleName" -> Value(x.module)
      [] name = "FuncName" -> Value(x.funcName)
      [] name = "ProcessID" -> Value(x.process)
      [] name = "ProcessName" -> Value(x.processName)
      [] name = "ThreadID" -> Value(x.thread)
      [] name = "ThreadName" -> Value(x.threadName)
      [] name = "LogMessage" -> GetMessage(x)
      [] OTHER -> NULL

\* LogCol.get_value(record) for the column `name`
GetValue(name, x) ==
    CASE name = "Time" -> Value([date |-> Date(x.lt), microsecond |-> x.msecs * 1000])
      [] name = "LoggerName" -> Value(x.name)
      [] name = "Level" -> Value(x.levelname)
      [] name = "FileName" -> Value(x.pathname)
      [] name = "LineNo" -> Value(x.lineno)
      [] name = "ModuleName" -> Value(x.module)
      [] name = "FuncName" -> Value(x.funcName)
      [] name = "ProcessID" -> Value(x.process)
      [] name = "ProcessName" -> Value(x.processName)
      [] name = "ThreadID" -> Value(x.thread)
      [] name = "ThreadName" -> Value(x.threadName)
      [] name = "LogMessage" -> GetMessage(x)
      [] name = "ExceptionType" ->
            \* x.exc_info[0].__name__ if x.exc_info else None
            IF Truthy(x.exc_info)
            THEN IF x.exc_info.type = "None" THEN Raise("AttributeError")
                 ELSE Value(x.exc_info.type)
            ELSE NULL
      [] name = "TraceBack" ->
            IF Truthy(x.exc_info) THEN Value(Join(FormatException(x.exc_info))) ELSE NULL

ColumnNames == [i \in DOMAIN TABLE_COLUMNS |-> TABLE_COLUMNS[i].name]

\* the columns whose extractor raises on x, by position
RaisingColumns(x) ==
    {i \in DOMAIN TABLE_COLUMNS : Raised(GetValue(TABLE_COLUMNS[i].name, x))}

\* the loop of insert_log stops at the first column that raises
FirstRaising(x) ==
    IF RaisingColumns(x) = {} THEN "none"
    ELSE TABLE_COLUMNS[CHOOSE i \in RaisingColumns(x) :
                          \A j \in RaisingColumns(x) : i <= j].name

\* the `values` list of insert_log
Values(x) == [i \in DOMAIN TABLE_COLUMNS |-> GetValue(TABLE_COLUMNS[i].name, x)]

\* the column list of the CREATE TABLE statement
Schema == <<"id">> \o ColumnNames

(***************************************************************************)
(* State                                                                   *)
(***************************************************************************)
VARIABLES
    kind,       \* which handler was constructed: "none", "fixed", "rotating", "failed"
    database,   \* the database argument of __init__ (self.database of the fixed handler)
    interval,   \* self.interval (rotating handler)
    dbformat,   \* self.dbformat (rotating handler)
    tables,     \* database name -> the logs table stored there: columns and rows
    conns,      \* open connections: id -> database, opener, uncommitted rows
    opened,     \* number of connections opened so far
    pc,         \* position inside emit
    call,       \* locals of the running emit call and what happened in it
    log,        \* the finished emit calls, in order
    resolved    \* names resolved so far (naming examined alone)

vars == <<kind, database, interval, dbformat, tables, conns, opened, pc, call, log, resolved>>

sinkVars == <<kind, database, interval, dbformat>>

FixedDatabases == {APP_DB}

RotatingConfigs == {<<APP_DB, "day">>, <<APP_DB, "none">>, <<<<"a", "p", "p">>, "month">>}

NoCall ==
    [self |-> << >>, record |-> "none", database |-> EMPTY, connection |-> 0,
     created |-> FALSE, values |-> << >>,
     exc |-> FALSE, failedAt |-> "none", column |-> "none", env |-> FALSE,
     hooked |-> << >>, committed |-> FALSE, raised |-> FALSE]

Init ==
    /\ kind = "none"
    /\ database = EMPTY
    /\ interval = "none"
    /\ dbformat = EMPTY
    /\ tables = << >>
    /\ conns = << >>
    /\ opened = 0
    /\ pc = "idle"
    /\ call = NoCall
    /\ log = << >>
    /\ resolved = {}

(***************************************************************************)
(* Storage engine, as far as the handlers use it                           *)
(***************************************************************************)
\* sqlite3.connect(name): a new open connection
Connected(cs, id, name, by) ==
    cs @@ (id :> [database |-> name, by |-> by, pending |-> << >>])

\* CREATE TABLE IF NOT EXISTS logs(id ..., columns): no change when it exists
Created(ts, name) ==
    IF name \in DOMAIN ts THEN ts
    ELSE ts @@ (name :> [columns |-> Schema, rows |-> << >>])

\* another connection holds uncommitted writes on the same database
Locked(cs, id, name) ==
    \E d \in DOMAIN cs : d # id /\ cs[d].database = name /\ cs[d].pending # << >>

\* connection.commit(): the uncommitted rows are appended; ids ascend
Committed(rows, pending) == rows \o pending

ReleaseOnSuccessOnly(cs, id, failed) ==
    IF failed THEN cs ELSE [d \in DOMAIN cs \ {id} |-> cs[d]]

\* connection.close() in the finally clause: closed whether or not the body
\* failed; uncommitted rows are dropped with the connection
Release(cs, id, failed) == [d \in DOMAIN cs \ {id} |-> cs[d]]

(***************************************************************************)
(* Construction                                                            *)
(***************************************************************************)
\* SQLite3Handler.__init__: connect, create_table, close; a failure propagates
\* (and create_table failing leaves the connection unclosed)
FixedInit(db) ==
    /\ kind = "none"
    /\ \E outcome \in {"ok", "connect", "create"} :
        /\ opened' = IF outcome = "connect" THEN opened ELSE opened + 1
        /\ IF outcome = "ok"
           THEN /\ kind' = "fixed"
                /\ database' = db
                /\ tables' = Created(tables, db)
                /\ conns' = conns
           ELSE /\ kind' = "failed"
                /\ database' = db
                /\ tables' = tables
                /\ conns' = IF outcome = "create"
                            THEN Connected(conns, opened + 1, db, "init")
                            ELSE conns
    /\ UNCHANGED <<interval, dbformat, pc, call, log, resolved>>

\* TimedRotatingSQLite3Handler.__init__: no I/O, SQLite3Handler.__init__ skipped
RotatingInit(db, int) ==
    /\ kind = "none"
    /\ kind' = "rotating"
    /\ interval' = int
    /\ dbformat' = DbFormat(db, int)
    /\ database' = db
    /\ UNCHANGED <<tables, conns, opened, pc, call, log, resolved>>

(***************************************************************************)
(* emit                                                                    *)
(***************************************************************************)
\* the database the emit call connects to
Target(x) ==
    IF kind = "fixed" THEN database ELSE StrFTime(dbformat, Date(x.lt))

TRY_BODY == {"create", "extract", "insert", "commit"}

CaughtExceptCommit(step) == step \in TRY_BODY \ {"commit"}

\* the steps of emit inside try ... except Exception
Caught(step) == step \in TRY_BODY

ProvisionsNever(k) == FALSE

\* does emit of handler k call create_table before insert_log
Provisions(k) == k = "rotating"

EmitCall(x) ==
    /\ pc = "idle"
    /\ kind \in {"fixed", "rotating"}
    /\ Len(log) < MaxEmits
    /\ call' = [NoCall EXCEPT !.self = <<kind, database, interval, dbformat>>,
                              !.record = x, !.database = Target(x)]
    /\ pc' = "connect"
    /\ UNCHANGED <<sinkVars, tables, conns, opened, log, resolved>>

\* connection = sqlite3.connect(database), before the try
Connect ==
    /\ pc = "connect"
    /\ \E ok \in BOOLEAN :
        IF ok
        THEN /\ opened' = opened + 1
             /\ conns' = Connected(conns, opened + 1, call.database, "emit")
             /\ call' = [call EXCEPT !.connection = opened + 1]
             /\ pc' = IF Provisions(kind) THEN "create" ELSE "extract"
        ELSE /\ call' = [call EXCEPT !.failedAt = "connect", !.env = TRUE,
                                     !.exc = TRUE, !.raised = TRUE]
             /\ pc' = "return"
             /\ UNCHANGED <<conns, opened>>
    /\ UNCHANGED <<sinkVars, tables, log, resolved>>

\* an exception raised by `step` of the try body
Fail(step, env, column) ==
    /\ call' = [call EXCEPT !.failedAt = step, !.env = env, !.exc = TRUE,
                            !.column = column]
    /\ pc' = IF Caught(step) THEN "except" ELSE "finally"

\* self.create_table(connection)
CreateTable ==
    /\ pc = "create"
    /\ \E ok \in BOOLEAN :
        IF ok
        THEN /\ tables' = Created(tables, call.database)
             /\ pc' = "extract"
             /\ call' = [call EXCEPT !.created = TRUE]
        ELSE /\ Fail("create", TRUE, "none")
             /\ tables' = tables
    /\ UNCHANGED <<sinkVars, conns, opened, log, resolved>>

\* insert_log: the loop that fills names and values
ExtractRow ==
    /\ pc = "extract"
    /\ IF FirstRaising(call.record) = "none"
       THEN /\ call' = [call EXCEPT !.values = Values(call.record)]
            /\ pc' = "insert"
       ELSE Fail("extract", FALSE, FirstRaising(call.record))
    /\ UNCHANGED <<sinkVars, tables, conns, opened, log, resolved>>

\* insert_log: cursor.execute(INSERT INTO logs(names) VALUES(?...), values)
ExecuteInsert ==
    /\ pc = "insert"
    /\ \E ok \in BOOLEAN :
        IF /\ ok
           /\ call.database \in DOMAIN tables
           /\ ~Locked(conns, call.connection, call.database)
        THEN /\ conns' = [conns EXCEPT ![call.connection].pending = <<call.values>>]
             /\ pc' = "commit"
             /\ call' = call
        ELSE /\ Fail("insert", ~ok, "none")
             /\ conns' = conns
    /\ UNCHANGED <<sinkVars, tables, opened, log, resolved>>

\* insert_log: connection.commit()
Commit ==
    /\ pc = "commit"
    /\ \E ok \in BOOLEAN :
        IF ok
        THEN /\ tables' = [tables EXCEPT ![call.database].rows =
                              Committed(@, conns[call.connection].pending)]
             /\ conns' = [conns EXCEPT ![call.connection].pending = << >>]
             /\ call' = [call EXCEPT !.committed = TRUE]
             /\ pc' = "finally"
        ELSE /\ Fail("commit", TRUE, "none")
             /\ UNCHANGED <<tables, conns>>
    /\ UNCHANGED <<sinkVars, opened, log, resolved>>

\* except Exception: self.handleError(record)
HandleError ==
    /\ pc = "except"
    /\ call' = [call EXCEPT !.hooked = Append(@, call.record), !.exc = FALSE]
    /\ pc' = "finally"
    /\ UNCHANGED <<sinkVars, tables, conns, opened, log, resolved>>

\* finally: connection.close(); an exception not handled goes on to the caller
Close ==
    /\ pc = "finally"
    /\ conns' = Release(conns, call.connection, call.failedAt # "none")
    /\ call' = [call EXCEPT !.raised = call.exc]
    /\ pc' = "return"
    /\ UNCHANGED <<sinkVars, tables, opened, log, resolved>>

\* emit is over: it returned or raised to its caller
Return ==
    /\ pc = "return"
    /\ log' = Append(log, call)
    /\ call' = NoCall
    /\ pc' = "idle"
    /\ UNCHANGED <<sinkVars, tables, conns, opened, resolved>>

Next ==
    \/ \E db \in FixedDatabases : FixedInit(db)
    \/ \E cfg \in RotatingConfigs : RotatingInit(cfg[1], cfg[2])
    \/ \E x \in LogRecords : EmitCall(x)
    \/ Connect
    \/ CreateTable
    \/ ExtractRow
    \/ ExecuteInsert
    \/ Commit
    \/ HandleError
    \/ Close
    \/ Return

Spec == Init /\ [][Next]_vars

(***************************************************************************)
(* The naming of the rotating handler alone                                *)
(***************************************************************************)
\* the first two lines of TimedRotatingSQLite3Handler.emit
Resolve(lt) ==
    /\ kind = "rotating"
    /\ pc = "idle"
    /\ Cardinality(resolved) < MaxResolved
    /\ resolved' = resolved \cup
          {[lt |-> lt, database |-> StrFTime(dbformat, Date(lt))]}
    /\ UNCHANGED <<sinkVars, tables, conns, opened, pc, call, log>>

NextResolve ==
    \/ \E db \in Templates, int \in Intervals : RotatingInit(db, int)
    \/ \E lt \in LocalTimes : Resolve(lt)

SpecResolve == Init /\ [][NextResolve]_vars

(***************************************************************************)
(* Properties                                                              *)
(***************************************************************************)
\* the emit calls that ended, and the one that is ending
Calls == IF pc = "return" THEN Append(log, call) ELSE log

\* C1: whenever create_table, the extraction of the row, the INSERT or the
\* commit fails during emit(record), emit returns normally and handleError
\* is called exactly once, with that record (fixed and rotating handler)
FailureIsolation ==
    \A i \in DOMAIN Calls :
        Calls[i].failedAt \in TRY_BODY =>
            /\ ~Calls[i].raised
            /\ Calls[i].hooked = <<Calls[i].record>>

FailureIsolationWitness ==
    /\ Len(log) = 2
    /\ log[1].failedAt = "commit"
    /\ log[2].failedAt = "extract"
    /\ \A i \in 1..2 : ~log[i].raised /\ log[i].hooked = <<log[i].record>>

\* C2: emit never raises to its caller, whichever step fails, the opening
\* of the connection included
EmitNeverRaises ==
    \A i \in DOMAIN Calls : ~Calls[i].raised

\* C3: every connection opened by an emit call is closed when that call
\* ends, on every exit path; between calls no connection opened by emit is
\* open
ConnectionRelease ==
    pc \in {"return", "idle"} =>
        \A d \in DOMAIN conns : conns[d].by # "emit"

ConnectionReleaseWitness ==
    /\ pc = "idle"
    /\ Len(log) = 2
    /\ log[1].connection # 0 /\ log[1].failedAt = "insert"
    /\ log[2].connection # 0 /\ log[2].committed
    /\ conns = << >>

\* C4: the INSERT is only executed against a database in which the logs
\* table exists: the fixed handler created it at construction, the rotating
\* handler creates it in the same emit, on the same connection, before
TableBeforeInsert ==
    /\ kind = "fixed" => database \in DOMAIN tables
    /\ pc = "insert" =>
        /\ call.database \in DOMAIN tables
        /\ tables[call.database].columns = Schema
        /\ call.connection \in DOMAIN conns
        /\ conns[call.connection].database = call.database
        /\ kind = "rotating" => call.created

TableBeforeInsertWitness ==
    /\ kind = "rotating"
    /\ pc = "insert"
    /\ Len(log) = 1
    /\ log[1].database # call.database
    /\ call.database \in DOMAIN tables

\* the name the rotating handler is to write to: stem, suffix, extension
HasExt(t) == EndsWith(t, EXT_DB) \/ EndsWith(t, EXT_SQLITE) \/ EndsWith(t, EXT_SQLITE3)

NamedExt(t) ==
    IF EndsWith(t, EXT_SQLITE3) THEN EXT_SQLITE3
    ELSE IF EndsWith(t, EXT_SQLITE) THEN EXT_SQLITE
    ELSE IF EndsWith(t, EXT_DB) THEN EXT_DB
    ELSE EXT_SQLITE3

NamedStem(t) == IF HasExt(t) THEN DropLast(t, Len(NamedExt(t))) ELSE t

NamedSuffix(int, lt) ==
    CASE int = "year" -> <<"_">> \o Pad4(lt.year)
      [] int = "month" -> <<"_">> \o Pad4(lt.year) \o <<"-">> \o Pad2(lt.month)
      [] int = "day" ->
            <<"_">> \o Pad4(lt.year) \o <<"-">> \o Pad2(lt.month) \o <<"-">> \o Pad2(lt.day)
      [] int = "hour" ->
            <<"_">> \o Pad4(lt.year) \o <<"-">> \o Pad2(lt.month) \o <<"-">> \o Pad2(lt.day)
                \o <<"_">> \o Pad2(lt.hour)
      [] int = "minute" ->
            <<"_">> \o Pad4(lt.year) \o <<"-">> \o Pad2(lt.month) \o <<"-">> \o Pad2(lt.day)
                \o <<"_">> \o Pad2(lt.hour) \o <<":">> \o Pad2(lt.minute)
      [] OTHER -> EMPTY

Named(t, int, lt) == NamedStem(t) \o NamedSuffix(int, lt) \o NamedExt(t)

SameDay(a, b) == a.year = b.year /\ a.month = b.month /\ a.day = b.day

Col(row, name) ==
    row[CHOOSE i \in DOMAIN TABLE_COLUMNS : TABLE_COLUMNS[i].name = name]

\* the emit calls of the log that stored their row in the database `name`
StoredIn(name) == SelectSeq(log, LAMBDA e : e.committed /\ e.database = name)

\* C5: a rotating handler stores every successfully emitted event as one
\* row in the file named after the event's own local time and in no other;
\* with interval day and base app.db events of different days go to
\* different files; every file has the whole schema and as many rows as
\* events that resolved to it
RotatingRouting ==
    (kind = "rotating" /\ pc = "idle") =>
        /\ \A i \in DOMAIN log :
              log[i].database = Named(database, interval, log[i].record.lt)
        /\ \A name \in DOMAIN tables :
              /\ tables[name].columns = Schema
              /\ Len(tables[name].rows) = Len(StoredIn(name))
              /\ \A k \in DOMAIN tables[name].rows :
                    Col(tables[name].rows[k], "Time").v.date = StoredIn(name)[k].record.lt
        /\ \A i \in DOMAIN log : log[i].committed => log[i].database \in DOMAIN tables
        /\ (interval = "day" /\ database = APP_DB) =>
              \A i, j \in DOMAIN log :
                  ~SameDay(log[i].record.lt, log[j].record.lt) =>
                      log[i].database # log[j].database

RotatingRoutingWitness ==
    /\ kind = "rotating" /\ interval = "day" /\ database = APP_DB
    /\ pc = "idle"
    /\ Len(log) = 2
    /\ log[1].committed /\ log[2].committed
    /\ log[1].database # log[2].database
    /\ Cardinality(DOMAIN tables) = 2
    /\ \A name \in DOMAIN tables : Len(tables[name].rows) = 1

\* the event carries the triple of a caught exception
Captured(x) == ~x.exc_info.isNone /\ x.exc_info.type # "None"

\* C6: a fixed handler on a fresh file, after emits in which no step fails,
\* holds one row per emitted event, in emit order, each committed by its own
\* emit; without a captured failure LogMessage is the rendered message and
\* ExceptionType and TraceBack are null; with one, ExceptionType is the name
\* of the failure's type
FixedEndToEnd ==
    (kind = "fixed" /\ \A i \in DOMAIN log : log[i].failedAt = "none") =>
        LET rows == tables[database].rows IN
        /\ Len(rows) = Len(log) + (IF call.committed THEN 1 ELSE 0)
        /\ \A i \in DOMAIN log :
              LET x == log[i].record IN
              /\ Col(rows[i], "Time").v.date = x.lt
              /\ Col(rows[i], "LogMessage") = Value(x.msg)
              /\ ~Captured(x) =>
                    /\ Col(rows[i], "ExceptionType") = NULL
                    /\ Col(rows[i], "TraceBack") = NULL
              /\ Captured(x) =>
                    Col(rows[i], "ExceptionType") = Value(x.exc_info.type)

FixedEndToEndWitness ==
    /\ kind = "fixed"
    /\ pc = "idle"
    /\ Len(log) = 2
    /\ log[1].failedAt = "none" /\ ~Captured(log[1].record)
    /\ log[2].failedAt = "none" /\ Captured(log[2].record)
    /\ Len(tables[database].rows) = 2
    /\ Col(tables[database].rows[1], "LogMessage") = Value("hello")
    /\ Col(tables[database].rows[2], "ExceptionType") = Value("ValueError")

\* C7: on a well-formed event the ExceptionType and TraceBack extractors do
\* not raise; with a captured failure they give the type's name and the
\* joined formatted frames; with none (exc_info unset, or a triple of unset
\* components) both are null
ExceptionColumns ==
    \A i \in DOMAIN Calls :
        LET c == Calls[i] IN
        WellFormed(c.record) =>
            /\ c.column \notin {"ExceptionType", "TraceBack"}
            /\ c.values # << >> =>
                  IF Captured(c.record)
                  THEN /\ Col(c.values, "ExceptionType") = Value(c.record.exc_info.type)
                       /\ Col(c.values, "TraceBack") = Value(c.record.exc_info.frames)
                  ELSE /\ Col(c.values, "ExceptionType") = NULL
                       /\ Col(c.values, "TraceBack") = NULL

\* C10: a failed emit leaves nothing behind: every later emit is attempted
\* afresh on a new connection, stores its row when nothing fails in it, and
\* finds the handler as it was constructed
NoLastingEffect ==
    \A i \in DOMAIN log :
        (\E j \in 1..(i - 1) : log[j].failedAt # "none") =>
            /\ log[i].self = log[1].self
            /\ log[i].self = <<kind, database, interval, dbformat>>
            /\ log[i].failedAt # "connect" =>
                  \A j \in 1..(i - 1) : log[i].connection > log[j].connection
            /\ (~log[i].env /\ FirstRaising(log[i].record) = "none") =>
                  /\ log[i].committed
                  /\ log[i].failedAt = "none"
                  /\ \E k \in DOMAIN tables[log[i].database].rows :
                        tables[log[i].database].rows[k] = log[i].values

NoLastingEffectWitness ==
    /\ Len(log) = 2
    /\ log[1].failedAt = "commit"
    /\ log[2].committed
    /\ log[2].database = log[1].database
    /\ Len(tables[log[2].database].rows) = 1

\* C8: the file written to is stem + suffix + extension: the recognized
\* extension at the end of the base name or .sqlite3, the base name without
\* it verbatim, and the local time formatted for the interval (empty for an
\* unrecognized interval)
RotationFileNaming ==
    \A r \in resolved : r.database = Named(database, interval, r.lt)

\* C9: with interval day the same base name and local time always give the
\* same file, two times of one calendar day give the same file, and times of
\* different calendar days give different files
RotationDeterminism ==
    interval = "day" =>
        \A r1, r2 \in resolved :
            /\ r1.lt = r2.lt => r1.database = r2.database
            /\ SameDay(r1.lt, r2.lt) => r1.database = r2.database
            /\ ~SameDay(r1.lt, r2.lt) => r1.database # r2.database

====
